---- MODULE Spec2Model ----
(***************************************************************************)
(* Logit-adjusted training script (src/main.py): main() and build_loss_fn. *)
(*                                                                         *)
(* Numbers.  Logits, log terms and their sums are float32 values in the    *)
(* code.  Here a value is an integer count of thousandths, and float32 is  *)
(* a binary floating-point format with MantBits significant bits (Fl       *)
(* rounds to nearest, ties to even), so that absorption of a small logit   *)
(* by a large shift happens in the model as it does in the code.  Base     *)
(* probabilities are counts of eighths.                                    *)
(*                                                                         *)
(* The network, the datasets and the cross-entropy are collaborators: a    *)
(* forward pass yields any rows of model.rows, a batch carries any labels  *)
(* of dataset.labels, and a loss value is the pair of arguments handed to  *)
(* sparse_softmax_cross_entropy_with_logits.                               *)
(***************************************************************************)
EXTENDS Integers, Sequences, FiniteSets, TLC

\* ---- bounds of the model
MaxEpochs == 2
MaxNumTrain == 3
MaxNumTest == 3
MaxTau == 2
\* FLAGS.train_batch_size and FLAGS.test_batch_size, scaled down
TrainBatchSize == 2
TestBatchSize == 2
\* significant bits of the scaled-down float32
MantBits == 8

\* ---- program constants
\* a 'batch loss' is written at every step that is a multiple of it
LOG_EVERY == 1000
\* dataset.num_classes: a dataset of two classes
NumClasses == 2
\* ln(1e-12) in thousandths
LogEps == -27631

Classes == 1..NumClasses
Modes == {"baseline", "posthoc", "loss"}
None == <<>>

\* ln(n / 8) in thousandths, n = 1..8: a base probability is a count of eighths
LnMilli == <<-2079, -1386, -981, -693, -470, -288, -134, 0>>

\* contents a base-probabilities file can have, in eighths
BaseProbsFiles == {<<4, 4>>, <<2, 6>>, <<0, 8>>}

\* rows the network can output
LogitRows == {<<1000, 0>>, <<0, 1>>}

VARIABLES
    FLAGS,              \* [mode, tau, train_batch_size, test_batch_size]
    dataset,            \* [num_train, num_epochs, num_test, train_batches,
                        \*  test_batches, labels]
    model,              \* [rows]: the logits rows a forward pass can yield
    base_probs_file,    \* [exists, probs]
    pc, err,
    batches_per_epoch, base_probs, loss_fn, posthoc_adjusting,
    created,            \* the objects constructed so far
    train_acc_metric, test_acc_metric, test_adj_acc_metric,
    optimizer,          \* [iterations]
    summaries,          \* every tf.summary.scalar written, in order
    epoch, step, train_it, test_it,
    y, logits, loss_value, adjusted_logits,
    train_acc, test_acc, test_adj_acc,
    adj_evals,          \* [loss, test]: evaluations of base_probs**tau so far
    epoch_seen,         \* [train, test, adj]: matches and rows of the current epoch
    merged              \* rows of the current test epoch whose shift merged distinct logits

inputs == <<FLAGS, dataset, model, base_probs_file>>
setup_vars == <<batches_per_epoch, base_probs, loss_fn, posthoc_adjusting, created>>
metric_vars == <<train_acc_metric, test_acc_metric, test_adj_acc_metric>>
loop_vars == <<epoch, step, train_it, test_it>>
batch_vars == <<y, logits, loss_value, adjusted_logits>>
acc_vars == <<train_acc, test_acc, test_adj_acc>>
ghost_vars == <<adj_evals, epoch_seen, merged>>
vars == <<inputs, pc, err, setup_vars, metric_vars, optimizer, summaries,
          loop_vars, batch_vars, acc_vars, ghost_vars>>

\* ---- float32, scaled down to MantBits significant bits
Abs(x) == IF x < 0 THEN -x ELSE x

RECURSIVE Pow2(_)
Pow2(n) == IF n = 0 THEN 1 ELSE 2 * Pow2(n - 1)

\* the first magnitude that no longer fits MantBits significant bits
MantLimit == Pow2(MantBits)

RECURSIVE Quantum(_, _)
Quantum(a, q) == IF a < MantLimit * q THEN q ELSE Quantum(a, 2 * q)

Fl(x) ==
    LET a == Abs(x)
        q == Quantum(a, 1)
        r == a % q
        down == a - r
        up == down + q
        near == IF 2 * r < q THEN down
                ELSE IF 2 * r > q THEN up
                ELSE IF (down \div q) % 2 = 0 THEN down ELSE up
    IN  IF x < 0 THEN -near ELSE near

\* tf.math.log(tf.cast(p**tau + 1e-12, tf.float32)) for one class: the 1e-12 is
\* below float32 resolution of any p**tau > 0 here, and is all that is left at p = 0
LogTerms ==
    [tau \in 1..MaxTau |->
        [p \in 0..Len(LnMilli) |->
            IF p = 0 THEN Fl(LogEps) ELSE Fl(tau * LnMilli[p])]]

LogTerm(p, tau) == LogTerms[tau][p]

ShiftUp(L, probs, tau) ==
    [r \in DOMAIN L |-> [c \in Classes |-> Fl(L[r][c] + LogTerm(probs[c], tau))]]

ShiftDown(L, probs, tau) ==
    [r \in DOMAIN L |-> [c \in Classes |-> Fl(L[r][c] - LogTerm(probs[c], tau))]]

\* ---- tf.keras.metrics.SparseCategoricalAccuracy
NewMetric == [total |-> 0, count |-> 0]

\* argmax over the class axis: the first index holding the maximum
ArgMax(row) ==
    CHOOSE c \in Classes :
        /\ \A d \in Classes : row[d] <= row[c]
        /\ \A d \in Classes : d < c => row[d] < row[c]

Matches(labels, L) == Cardinality({r \in DOMAIN L : ArgMax(L[r]) = labels[r]})

update_state(m, labels, L) ==
    [total |-> m.total + Matches(labels, L), count |-> m.count + Len(L)]

\* total / count with divide_no_nan, as a fraction
result(m) == IF m.count = 0 THEN [num |-> 0, den |-> 1]
             ELSE [num |-> m.total, den |-> m.count]

\* a reset that leaves the counters as they are
reset_states_Keep(m) == m

reset_states(m) == NewMetric

SameValue(a, b) == a.num * b.den = b.num * a.den

\* ---- build_loss_fn and the closure it returns
build_loss_fn(use_la_loss, probs, tau) ==
    [raised |-> "none",
     fn |-> [use_la_loss |-> use_la_loss, base_probs |-> probs, tau |-> tau]]

\* a loss function that trains on the plain logits when it has no base probabilities
loss_fn_call_Fallback(fn, labels, L) ==
    IF fn.use_la_loss /\ fn.base_probs # None
    THEN [raised |-> "none", evals |-> 1,
          value |-> [labels |-> labels,
                     logits |-> ShiftUp(L, fn.base_probs, fn.tau)]]
    ELSE [raised |-> "none", evals |-> 0,
          value |-> [labels |-> labels, logits |-> L]]

loss_fn_call(fn, labels, L) ==
    IF fn.use_la_loss
    THEN IF fn.base_probs = None
         THEN [raised |-> "TypeError", evals |-> 0, value |-> None]
         ELSE [raised |-> "none", evals |-> 1,
               value |-> [labels |-> labels,
                          logits |-> ShiftUp(L, fn.base_probs, fn.tau)]]
    ELSE [raised |-> "none", evals |-> 0,
          value |-> [labels |-> labels, logits |-> L]]

\* ---- batches: batch i of a split of n examples cut into batches of size b holds
\* b examples, or what is left of the n (at least one)
Min(a, b) == IF a < b THEN a ELSE b
Max(a, b) == IF a > b THEN a ELSE b
Floor(n, b) == n \div b
Ceil(n, b) == (n + b - 1) \div b
RowsOf(i, n, b) == Max(1, Min(b, n - i * b))

BatchesOf(rows) == [1..rows -> dataset.labels \X model.rows]

\* ---- the process before it has its flags and its collaborators
NoFlags == [mode |-> "unset", tau |-> 0, train_batch_size |-> 0,
            test_batch_size |-> 0]
NoDataset == [num_train |-> 0, num_epochs |-> 0, num_test |-> 0,
              train_batches |-> 0, test_batches |-> 0, labels |-> {}]
NoFile == [exists |-> FALSE, probs |-> None]

LabelsOf(b) == [r \in DOMAIN b |-> b[r][1]]
LogitsOf(b) == [r \in DOMAIN b |-> b[r][2]]

\* one tf.summary.scalar call: the writer it goes to, its name and its step (the
\* value written is the local it was read from: loss_value, train_acc, ...)
Scalar(stream, tag, at) == [stream |-> stream, tag |-> tag, step |-> at]

NoFn == [use_la_loss |-> FALSE, base_probs |-> None, tau |-> 0]
NoAcc == [num |-> 0, den |-> 1]
NoSeen == [train |-> NewMetric, test |-> NewMetric, adj |-> NewMetric]

Init ==
    /\ FLAGS = NoFlags /\ dataset = NoDataset
    /\ model = [rows |-> {}] /\ base_probs_file = NoFile
    /\ pc = "start" /\ err = "none"
    /\ batches_per_epoch = 0 /\ base_probs = None /\ loss_fn = NoFn
    /\ posthoc_adjusting = FALSE /\ created = {}
    /\ train_acc_metric = NewMetric /\ test_acc_metric = NewMetric
    /\ test_adj_acc_metric = NewMetric
    /\ optimizer = [iterations |-> 0] /\ summaries = <<>>
    /\ epoch = 0 /\ step = -1 /\ train_it = 0 /\ test_it = 0
    /\ y = <<>> /\ logits = <<>> /\ loss_value = <<>> /\ adjusted_logits = <<>>
    /\ train_acc = NoAcc /\ test_acc = NoAcc /\ test_adj_acc = NoAcc
    /\ adj_evals = [loss |-> 0, test |-> 0]
    /\ epoch_seen = NoSeen /\ merged = 0

Files == {NoFile} \cup {[exists |-> TRUE, probs |-> p] : p \in BaseProbsFiles}

\* FLAGS.tau: the default and a larger one
Taus == {1, MaxTau}

run_vars == <<err, setup_vars, metric_vars, optimizer, summaries, loop_vars,
              batch_vars, acc_vars, ghost_vars>>

\* ---- lines 10-31: the flags, the dataset entry, the two splits, the network.
\* The train split comes in full batches, with or without the remainder; the test
\* split with its remainder.
Start ==
    /\ pc = "start"
    /\ FLAGS' \in [mode : Modes, tau : Taus,
                   train_batch_size : {TrainBatchSize},
                   test_batch_size : {TestBatchSize}]
    /\ \E nt \in 0..MaxNumTrain, ns \in 0..MaxNumTest :
          dataset' \in [num_train : {nt}, num_epochs : 0..MaxEpochs,
                        num_test : {ns},
                        train_batches : {Floor(nt, TrainBatchSize),
                                         Ceil(nt, TrainBatchSize)},
                        test_batches : {Ceil(ns, TestBatchSize)},
                        labels : {Classes}]
    /\ model' = [rows |-> LogitRows]
    /\ base_probs_file' \in Files
    /\ pc' = "load"
    /\ UNCHANGED run_vars

\* ---- main(), lines 22-43: the datasets, the network, the base probabilities
BatchesPerEpoch(num_train, batch_size) == num_train \div batch_size

\* a loader that lets a posthoc run start without its file
NeedsBaseProbs_LossOnly(mode) == mode = "loss"

\* a loader that tolerates no missing file at all
NeedsBaseProbs_Always(mode) == TRUE

NeedsBaseProbs(mode) == mode \in {"posthoc", "loss"}

LoadBaseProbs ==
    /\ pc = "load"
    /\ batches_per_epoch' =
           BatchesPerEpoch(dataset.num_train, FLAGS.train_batch_size)
    /\ IF base_probs_file.exists
       THEN /\ base_probs' = base_probs_file.probs
            /\ pc' = "setup" /\ err' = err
       ELSE IF NeedsBaseProbs(FLAGS.mode)
            THEN /\ pc' = "failed" /\ err' = "NotFoundError"
                 /\ base_probs' = base_probs
            ELSE /\ base_probs' = None
                 /\ pc' = "setup" /\ err' = err
    /\ UNCHANGED <<inputs, loss_fn, posthoc_adjusting, created, metric_vars,
                   optimizer, summaries, loop_vars, batch_vars, acc_vars,
                   ghost_vars>>

\* ---- lines 45-71: the loss function, the metrics, the optimizer, the writers
\* a run that also adjusts the loss in posthoc mode
UseLaLoss_NotBaseline(mode) == mode # "baseline"

UseLaLoss(mode) == mode = "loss"

PosthocAdjusting(mode) == mode = "posthoc"

Setup ==
    /\ pc = "setup"
    /\ LET built == build_loss_fn(UseLaLoss(FLAGS.mode), base_probs, FLAGS.tau)
       IN  IF built.raised # "none"
           THEN /\ pc' = "failed" /\ err' = built.raised
                /\ UNCHANGED <<loss_fn, posthoc_adjusting, created, metric_vars>>
           ELSE /\ loss_fn' = built.fn
                /\ train_acc_metric' = NewMetric
                /\ test_acc_metric' = NewMetric
                /\ posthoc_adjusting' = PosthocAdjusting(FLAGS.mode)
                /\ test_adj_acc_metric' = NewMetric
                /\ created' = {"loss_fn", "train_acc_metric", "test_acc_metric",
                               "optimizer", "train_summary_writer",
                               "test_summary_writer"}
                              \cup (IF posthoc_adjusting'
                                    THEN {"test_adj_acc_metric"} ELSE {})
                /\ pc' = "epoch" /\ err' = err
    /\ UNCHANGED <<inputs, batches_per_epoch, base_probs, optimizer, summaries,
                   loop_vars, batch_vars, acc_vars, ghost_vars>>

\* ---- line 74: for epoch in range(dataset.num_epochs); epoch counts the epochs
\* completed, which is the loop variable's value inside the body.
\* The locals of a batch (y, logits, loss_value, adjusted_logits) and of an epoch
\* (train_acc, test_acc, test_adj_acc) are each assigned again before they are
\* next read: they are shown unassigned once their loop is left.
Unassigned == <<>>

\* a loop that stops one epoch early
InRange_EarlyStop(e, n) == e + 1 < n

InRange(e, n) == e < n

NextEpoch ==
    /\ pc = "epoch" /\ InRange(epoch, dataset.num_epochs)
    /\ pc' = "train"
    /\ train_it' = 0 /\ test_it' = 0
    /\ epoch_seen' = NoSeen /\ merged' = 0
    /\ train_acc' = NoAcc /\ test_acc' = NoAcc /\ test_adj_acc' = NoAcc
    /\ UNCHANGED <<inputs, err, setup_vars, metric_vars, optimizer, summaries,
                   epoch, step, batch_vars, adj_evals>>

Finish ==
    /\ pc = "epoch" /\ ~InRange(epoch, dataset.num_epochs)
    /\ pc' = "done"
    /\ UNCHANGED <<inputs, err, setup_vars, metric_vars, optimizer, summaries,
                   loop_vars, batch_vars, acc_vars, ghost_vars>>

\* ---- lines 77-93: one training batch
\* a 'batch loss' index counted from the end of the epoch
LossStep_NextEpoch(e, s) == (e + 1) * batches_per_epoch + s

LossStep(e, s) == e * batches_per_epoch + s

LogsLoss(s) == s % LOG_EVERY = 0

TrainStep ==
    /\ pc = "train" /\ train_it < dataset.train_batches
    /\ \E b \in BatchesOf(RowsOf(train_it, dataset.num_train,
                                  FLAGS.train_batch_size)) :
          LET out == loss_fn_call(loss_fn, LabelsOf(b), LogitsOf(b))
          IN  /\ step' = train_it
              /\ y' = LabelsOf(b) /\ logits' = LogitsOf(b)
              /\ IF out.raised # "none"
                 THEN /\ pc' = "failed" /\ err' = out.raised
                      /\ UNCHANGED <<loss_value, optimizer, train_acc_metric,
                                     summaries, train_it, adj_evals, epoch_seen>>
                 ELSE /\ loss_value' = out.value
                      /\ optimizer' = [iterations |-> optimizer.iterations + 1]
                      /\ train_acc_metric' =
                             update_state(train_acc_metric, y', logits')
                      /\ summaries' =
                             IF LogsLoss(step')
                             THEN Append(summaries,
                                         Scalar("train", "batch loss",
                                                LossStep(epoch, step')))
                             ELSE summaries
                      /\ train_it' = train_it + 1
                      /\ adj_evals' =
                             [adj_evals EXCEPT !.loss = @ + out.evals]
                      /\ epoch_seen' =
                             [epoch_seen EXCEPT
                                 !.train = update_state(@, y', logits')]
                      /\ pc' = pc /\ err' = err
    /\ UNCHANGED <<inputs, setup_vars, test_acc_metric, test_adj_acc_metric,
                   epoch, test_it, adjusted_logits, acc_vars, merged>>

\* ---- lines 95-101: the train metrics of the epoch
\* an 'accuracy' index counted from the start of the epoch
AccStep_ThisEpoch(e) == e * batches_per_epoch

AccStep(e) == (e + 1) * batches_per_epoch

TrainEpochEnd ==
    /\ pc = "train" /\ train_it >= dataset.train_batches
    /\ train_acc' = result(train_acc_metric)
    /\ train_acc_metric' = reset_states(train_acc_metric)
    /\ summaries' = Append(summaries, Scalar("train", "accuracy", AccStep(epoch)))
    /\ pc' = "test"
    /\ y' = Unassigned /\ logits' = Unassigned
    /\ loss_value' = Unassigned /\ adjusted_logits' = Unassigned
    /\ UNCHANGED <<inputs, err, setup_vars, test_acc_metric, test_adj_acc_metric,
                   optimizer, loop_vars, test_acc, test_adj_acc, ghost_vars>>

\* ---- lines 104-112: one test batch
\* a test loop that applies the loss's transform
PosthocLogits_Plus(L, probs, tau) == ShiftUp(L, probs, tau)

\* a shift that reaches the first class only
PosthocLogits_FirstClass(L, probs, tau) ==
    [r \in DOMAIN L |->
        [c \in Classes |->
            IF c = 1 THEN Fl(L[r][c] - LogTerm(probs[c], tau)) ELSE L[r][c]]]

PosthocLogits(L, probs, tau) == ShiftDown(L, probs, tau)

\* rows in which two different logits became the same adjusted logit
MergedRows(L, A) ==
    Cardinality({r \in DOMAIN L :
                    \E c, d \in Classes : L[r][c] # L[r][d] /\ A[r][c] = A[r][d]})

TestStep ==
    /\ pc = "test" /\ test_it < dataset.test_batches
    /\ \E b \in BatchesOf(RowsOf(test_it, dataset.num_test,
                                  FLAGS.test_batch_size)) :
          /\ y' = LabelsOf(b) /\ logits' = LogitsOf(b)
          /\ test_acc_metric' = update_state(test_acc_metric, y', logits')
          /\ IF ~posthoc_adjusting
             THEN /\ test_it' = test_it + 1
                  /\ epoch_seen' =
                         [epoch_seen EXCEPT !.test = update_state(@, y', logits')]
                  /\ pc' = pc /\ err' = err
                  /\ UNCHANGED <<adjusted_logits, test_adj_acc_metric,
                                 adj_evals, merged>>
             ELSE IF base_probs = None
             THEN /\ pc' = "failed" /\ err' = "TypeError"
                  /\ UNCHANGED <<adjusted_logits, test_adj_acc_metric, test_it,
                                 adj_evals, epoch_seen, merged>>
             ELSE /\ adjusted_logits' =
                         PosthocLogits(logits', base_probs, FLAGS.tau)
                  /\ test_adj_acc_metric' =
                         update_state(test_adj_acc_metric, y', adjusted_logits')
                  /\ test_it' = test_it + 1
                  /\ adj_evals' = [adj_evals EXCEPT !.test = @ + 1]
                  /\ epoch_seen' =
                         [epoch_seen EXCEPT
                             !.test = update_state(@, y', logits'),
                             !.adj = update_state(@, y', adjusted_logits')]
                  /\ merged' = merged + MergedRows(logits', adjusted_logits')
                  /\ pc' = pc /\ err' = err
    /\ UNCHANGED <<inputs, setup_vars, train_acc_metric, optimizer, summaries,
                   epoch, step, train_it, loss_value, acc_vars>>

\* ---- lines 114-131: the test metrics of the epoch; the epoch is complete
TestEpochEnd ==
    /\ pc = "test" /\ test_it >= dataset.test_batches
    /\ test_acc' = result(test_acc_metric)
    /\ test_acc_metric' = reset_states(test_acc_metric)
    /\ IF posthoc_adjusting
       THEN /\ test_adj_acc' = result(test_adj_acc_metric)
            /\ test_adj_acc_metric' = reset_states(test_adj_acc_metric)
            /\ summaries' =
                   summaries \o
                   <<Scalar("test", "accuracy", AccStep(epoch)),
                     Scalar("test", "logit-adjusted accuracy", AccStep(epoch))>>
       ELSE /\ summaries' =
                   Append(summaries, Scalar("test", "accuracy", AccStep(epoch)))
            /\ UNCHANGED <<test_adj_acc, test_adj_acc_metric>>
    /\ epoch' = epoch + 1
    /\ pc' = "epoch"
    /\ y' = Unassigned /\ logits' = Unassigned
    /\ loss_value' = Unassigned /\ adjusted_logits' = Unassigned
    /\ UNCHANGED <<inputs, err, setup_vars, train_acc_metric, optimizer, step,
                   train_it, test_it, train_acc, ghost_vars>>

Next ==
    \/ Start
    \/ LoadBaseProbs
    \/ Setup
    \/ NextEpoch
    \/ TrainStep
    \/ TrainEpochEnd
    \/ TestStep
    \/ TestEpochEnd
    \/ Finish

Spec == Init /\ [][Next]_vars

\* a sequential program runs its next statement
FairSpec == Spec /\ WF_vars(Next)

\* ---- long epochs: train splits of LOG_EVERY batches and more, so that the
\* periodic 'batch loss' scalar is written past step 0; one example, one network
\* output, and any number of batches whatever num_train says
StartLong ==
    /\ pc = "start"
    /\ FLAGS' \in [mode : Modes, tau : {1},
                   train_batch_size : {TrainBatchSize},
                   test_batch_size : {TestBatchSize}]
    /\ dataset' \in [num_train : {(LOG_EVERY - 1) * TrainBatchSize,
                                  LOG_EVERY * TrainBatchSize},
                     num_epochs : {MaxEpochs}, num_test : {1},
                     train_batches : {LOG_EVERY, LOG_EVERY + 1},
                     test_batches : {1}, labels : {{1}}]
    /\ model' = [rows |-> {<<0, 1>>}]
    /\ base_probs_file' = [exists |-> TRUE, probs |-> <<2, 6>>]
    /\ pc' = "load"
    /\ UNCHANGED run_vars

NextLong ==
    \/ StartLong
    \/ LoadBaseProbs
    \/ Setup
    \/ NextEpoch
    \/ TrainStep
    \/ TrainEpochEnd
    \/ TestStep
    \/ TestEpochEnd
    \/ Finish

SpecLong == Init /\ [][NextLong]_vars

\* ---- build_loss_fn on its own: any arguments, then the returned function on
\* any batches
CallBuildLossFn ==
    /\ pc = "start"
    /\ dataset' = [dataset EXCEPT !.labels = Classes]
    /\ model' = [rows |-> LogitRows]
    /\ \E use_la_loss \in BOOLEAN, probs \in BaseProbsFiles \cup {None},
          tau \in Taus :
          LET built == build_loss_fn(use_la_loss, probs, tau)
          IN  IF built.raised # "none"
              THEN /\ pc' = "failed" /\ err' = built.raised
                   /\ UNCHANGED <<loss_fn, created>>
              ELSE /\ loss_fn' = built.fn
                   /\ created' = {"loss_fn"}
                   /\ pc' = "built" /\ err' = err
    /\ UNCHANGED <<FLAGS, base_probs_file, batches_per_epoch, base_probs,
                   posthoc_adjusting,
                   metric_vars, optimizer, summaries, loop_vars, batch_vars,
                   acc_vars, ghost_vars>>

CallLossFn ==
    /\ pc \in {"built", "returned"}
    /\ \E rows \in 1..TrainBatchSize :
          \E b \in BatchesOf(rows) :
             LET out == loss_fn_call(loss_fn, LabelsOf(b), LogitsOf(b))
             IN  /\ y' = LabelsOf(b) /\ logits' = LogitsOf(b)
                 /\ IF out.raised # "none"
                    THEN /\ pc' = "raised" /\ err' = out.raised
                         /\ UNCHANGED <<loss_value, adj_evals>>
                    ELSE /\ loss_value' = out.value
                         /\ adj_evals' = [adj_evals EXCEPT !.loss = out.evals]
                         /\ pc' = "returned" /\ err' = err
    /\ UNCHANGED <<inputs, setup_vars, metric_vars, optimizer, summaries,
                   loop_vars, adjusted_logits, acc_vars, epoch_seen, merged>>

NextBuild ==
    \/ CallBuildLossFn
    \/ CallLossFn

SpecBuild == Init /\ [][NextBuild]_vars

(***************************************************************************)
(* The claims                                                              *)
(***************************************************************************)
AfterTrainBatch == pc = "train" /\ train_it > 0
AfterTestBatch == pc = "test" /\ test_it > 0

\* C1 as stated: in posthoc mode every adjusted logit handed to the adjusted-test
\* accumulator is L[c] + log(p[c]^tau + eps), the sign the loss uses.
C1_PosthocAddsLogPrior ==
    (posthoc_adjusting /\ AfterTestBatch) =>
        \A r \in DOMAIN logits, c \in Classes :
            adjusted_logits[r][c] =
                Fl(logits[r][c] + LogTerm(base_probs[c], FLAGS.tau))

\* C1 amended: in posthoc mode every adjusted logit handed to the adjusted-test
\* accumulator is L[c] - log(p[c]^tau + eps): the per-class term is subtracted,
\* while the loss (use_la_loss true) adds it.
C1_PosthocSubtractsLogPrior ==
    /\ (posthoc_adjusting /\ AfterTestBatch) =>
          \A r \in DOMAIN logits, c \in Classes :
              adjusted_logits[r][c] =
                  Fl(logits[r][c] - LogTerm(base_probs[c], FLAGS.tau))
    /\ (FLAGS.mode = "loss" /\ AfterTrainBatch) =>
          \A r \in DOMAIN logits, c \in Classes :
              loss_value.logits[r][c] =
                  Fl(logits[r][c] + LogTerm(base_probs[c], FLAGS.tau))

\* a posthoc test batch whose adjusted logits differ from the raw ones, fed to the
\* adjusted-test accumulator
C1_Witness ==
    /\ posthoc_adjusting /\ AfterTestBatch
    /\ Len(logits) > 1
    /\ adjusted_logits # logits
    /\ test_adj_acc_metric.count > 0

\* C2 as stated: build_loss_fn(true, None, tau) fails at construction: it never
\* returns a loss function.
C2_BuildFailsWithoutBaseProbs ==
    ~("loss_fn" \in created /\ loss_fn.use_la_loss /\ loss_fn.base_probs = None)

\* C2 amended: build_loss_fn(true, None, tau) returns a loss function; every call
\* of that function raises (TypeError, from None**tau) before a loss is computed,
\* and it never returns the unadjusted loss.
C2_FailsAtFirstCall ==
    ("loss_fn" \in created /\ loss_fn.use_la_loss /\ loss_fn.base_probs = None) =>
        /\ pc \in {"built", "raised"}
        /\ pc = "built" => err = "none" /\ logits = Unassigned
        /\ pc = "raised" => err = "TypeError" /\ logits # Unassigned
        /\ loss_value = Unassigned

\* the function built without base probabilities was called on a batch and raised
C2_Witness ==
    /\ pc = "raised" /\ err = "TypeError"
    /\ loss_fn.use_la_loss /\ loss_fn.base_probs = None
    /\ Len(logits) > 0

\* C3: with the base-probabilities file missing and mode posthoc or loss, the run
\* ends in the not-found error during startup: no training step was run (no
\* forward pass, no optimizer update), no accuracy accumulator and no summary
\* writer exists, and no summary was written.
C3_MissingFileFailsAtStartup ==
    (~base_probs_file.exists /\ FLAGS.mode \in {"posthoc", "loss"} /\ pc # "load")
    =>
        /\ pc = "failed" /\ err = "NotFoundError"
        /\ optimizer.iterations = 0 /\ train_it = 0 /\ epoch = 0
        /\ logits = Unassigned
        /\ created = {}
        /\ summaries = <<>>

\* a posthoc run that failed on its missing file
C3_Witness ==
    /\ pc = "failed" /\ err = "NotFoundError"
    /\ FLAGS.mode = "posthoc" /\ ~base_probs_file.exists

BaselineNoFile == FLAGS.mode = "baseline" /\ ~base_probs_file.exists

\* C4: with the base-probabilities file missing and mode baseline, startup does
\* not fail, base_probs is None, the run goes through all its epochs to the end,
\* and base_probs**tau is never evaluated, in the loss or in the test loop.
C4_BaselineRunsWithoutFile ==
    /\ [](BaselineNoFile =>
            /\ pc # "failed" /\ err = "none"
            /\ base_probs = None
            /\ adj_evals = [loss |-> 0, test |-> 0]
            /\ AfterTrainBatch => loss_value = [labels |-> y, logits |-> logits]
            /\ adjusted_logits = Unassigned)
    /\ BaselineNoFile ~> (pc = "done" /\ epoch = dataset.num_epochs)

\* a baseline run without its file that trained and tested through all its epochs
C4_Witness ==
    /\ BaselineNoFile /\ pc = "done"
    /\ epoch = MaxEpochs
    /\ optimizer.iterations > 0 /\ dataset.test_batches > 0

TestBatchesDone ==
    IF pc \in {"train", "test"} THEN epoch * dataset.test_batches + test_it
    ELSE epoch * dataset.test_batches

HasTag(tag) == \E i \in 1..Len(summaries) : summaries[i].tag = tag

C5_State ==
    /\ pc \notin {"load", "setup", "failed"} =>
          /\ loss_fn.use_la_loss <=> FLAGS.mode = "loss"
          /\ posthoc_adjusting <=> FLAGS.mode = "posthoc"
    /\ adj_evals.loss = IF FLAGS.mode = "loss" THEN optimizer.iterations ELSE 0
    /\ adj_evals.test = IF FLAGS.mode = "posthoc" THEN TestBatchesDone ELSE 0
    /\ ~(adj_evals.loss > 0 /\ adj_evals.test > 0)
    /\ AfterTrainBatch =>
          /\ loss_value.labels = y
          /\ FLAGS.mode # "loss" => loss_value.logits = logits
          /\ FLAGS.mode = "loss" =>
                \A r \in DOMAIN logits, c \in Classes :
                    loss_value.logits[r][c] =
                        Fl(logits[r][c] + LogTerm(base_probs[c], FLAGS.tau))
    /\ AfterTestBatch => (adjusted_logits # Unassigned <=> FLAGS.mode = "posthoc")
    /\ HasTag("logit-adjusted accuracy") <=> (FLAGS.mode = "posthoc" /\ epoch > 0)

C5_Step ==
    /\ train_it' = train_it + 1 =>
          /\ train_acc_metric'.total =
                train_acc_metric.total + Matches(y', logits')
          /\ train_acc_metric'.count = train_acc_metric.count + Len(logits')
    /\ test_it' = test_it + 1 =>
          /\ test_acc_metric'.total = test_acc_metric.total + Matches(y', logits')
          /\ test_acc_metric'.count = test_acc_metric.count + Len(logits')
          /\ IF FLAGS.mode = "posthoc"
             THEN test_adj_acc_metric'.total =
                      test_adj_acc_metric.total + Matches(y', adjusted_logits')
             ELSE test_adj_acc_metric' = test_adj_acc_metric

\* C5: the mode alone fixes it: the loss adjusts the logits iff mode = loss; the
\* test loop computes adjusted logits and feeds and emits an adjusted-accuracy
\* stream iff mode = posthoc; never both, in baseline neither; and the train and
\* test accumulators take the raw logits in every mode.
C5_ModeFixesAdjustment == []C5_State /\ [][C5_Step]_vars

\* a posthoc run that trained on the plain loss and adjusted a test batch
C5_Witness ==
    /\ FLAGS.mode = "posthoc" /\ AfterTestBatch
    /\ optimizer.iterations > 0 /\ adj_evals.test > 0
    /\ adjusted_logits # logits

Tagged(stream, tag) ==
    SelectSeq(summaries, LAMBDA s : s.stream = stream /\ s.tag = tag)

\* where the k-th scalar of a stream and name stands among all the scalars written
PosOf(stream, tag, k) ==
    CHOOSE i \in 1..Len(summaries) :
        /\ summaries[i].stream = stream /\ summaries[i].tag = tag
        /\ Cardinality({j \in 1..i : /\ summaries[j].stream = stream
                                      /\ summaries[j].tag = tag}) = k

\* C6: each completed epoch e (0-based) wrote exactly one 'accuracy' to the train
\* stream and one to the test stream, both at (e+1) * batches_per_epoch, the
\* train one first; in posthoc mode also exactly one 'logit-adjusted accuracy'
\* to the test stream at that index; in baseline and loss modes none, ever.
C6_OneAccuracyPerEpoch ==
    LET B == IF pc = "start" THEN 0
             ELSE dataset.num_train \div FLAGS.train_batch_size
        tr == Tagged("train", "accuracy")
        te == Tagged("test", "accuracy")
        ad == Tagged("test", "logit-adjusted accuracy")
    IN  /\ Len(tr) = epoch + (IF pc = "test" THEN 1 ELSE 0)
        /\ Len(te) = epoch
        /\ Len(ad) = IF FLAGS.mode = "posthoc" THEN epoch ELSE 0
        /\ \A e \in 1..Len(tr) : tr[e].step = e * B
        /\ \A e \in 1..Len(te) :
              /\ te[e].step = e * B
              /\ PosOf("train", "accuracy", e) < PosOf("test", "accuracy", e)
              /\ e < Len(tr) =>
                    PosOf("test", "accuracy", e) < PosOf("train", "accuracy", e + 1)
        /\ \A e \in 1..Len(ad) :
              /\ ad[e].step = e * B
              /\ PosOf("test", "accuracy", e)
                    < PosOf("test", "logit-adjusted accuracy", e)
        /\ Tagged("train", "logit-adjusted accuracy") = <<>>
        /\ Tagged("test", "batch loss") = <<>>

\* a posthoc run of two epochs and more, done, with a non-zero step index
C6_Witness ==
    /\ FLAGS.mode = "posthoc" /\ pc = "done"
    /\ epoch >= 2 /\ batches_per_epoch > 0
    /\ Len(Tagged("test", "logit-adjusted accuracy")) = epoch

FractionOf(total, count) ==
    IF count = 0 THEN [num |-> 0, den |-> 1] ELSE [num |-> total, den |-> count]

Empty(m) == m.total = 0 /\ m.count = 0

\* C7: each accumulator is empty at the start of every epoch, is reset right after
\* it is read with no update in between, and the value read at the end of an
\* epoch is that of its own split's batches of that epoch alone.
C7_ResetDiscipline ==
    /\ (pc = "train" /\ train_it = 0) =>
          Empty(train_acc_metric) /\ Empty(test_acc_metric)
          /\ Empty(test_adj_acc_metric)
    /\ pc # "train" => Empty(train_acc_metric)
    /\ pc # "test" => Empty(test_acc_metric) /\ Empty(test_adj_acc_metric)
    /\ pc = "train" => train_acc_metric = epoch_seen.train
    /\ pc = "test" =>
          /\ test_acc_metric = epoch_seen.test
          /\ posthoc_adjusting => test_adj_acc_metric = epoch_seen.adj
          /\ train_acc = FractionOf(epoch_seen.train.total, epoch_seen.train.count)
    /\ (pc \in {"epoch", "done"} /\ epoch > 0) =>
          /\ train_acc = FractionOf(epoch_seen.train.total, epoch_seen.train.count)
          /\ test_acc = FractionOf(epoch_seen.test.total, epoch_seen.test.count)
          /\ posthoc_adjusting =>
                test_adj_acc =
                    FractionOf(epoch_seen.adj.total, epoch_seen.adj.count)

\* the end of a second epoch, in posthoc mode, after a first one that counted
\* matches: the three values read are of the second epoch's batches
C7_Witness ==
    /\ pc = "epoch" /\ epoch = 2 /\ posthoc_adjusting
    /\ train_acc.den > 1 /\ test_acc.den > 1
    /\ train_acc.num = 0 /\ test_acc.num = 0 /\ test_adj_acc.num > 0

Uniform ==
    /\ base_probs # None
    /\ \A c, d \in Classes : base_probs[c] = base_probs[d]

AtEpochEnd == pc \in {"epoch", "done"} /\ epoch > 0

\* C8 as stated: under a uniform prior the adjusted logits differ from the raw
\* ones by one constant for every class and row, the predicted class of every
\* test example is unchanged, and the adjusted-test accuracy read at the end of
\* every epoch equals the raw test accuracy of that epoch.
C8_UniformPriorKeepsAccuracy ==
    (posthoc_adjusting /\ Uniform) =>
        /\ AfterTestBatch =>
              /\ \A r \in DOMAIN logits, c \in Classes :
                    adjusted_logits[r][c] - logits[r][c]
                        = adjusted_logits[1][1] - logits[1][1]
              /\ \A r \in DOMAIN logits :
                    ArgMax(adjusted_logits[r]) = ArgMax(logits[r])
        /\ AtEpochEnd => SameValue(test_adj_acc, test_acc)

RoundedTogether(r) ==
    \E c, d \in Classes :
        logits[r][c] # logits[r][d] /\ adjusted_logits[r][c] = adjusted_logits[r][d]

\* C8 amended: under a uniform prior every adjusted logit is the float32 rounding
\* of the raw logit minus one constant, the same for every class and row; the
\* predicted class of a test example is unchanged unless that rounding made two
\* different logits of its row equal; and the adjusted-test accuracy read at the
\* end of an epoch equals the raw test accuracy of that epoch when no test row of
\* the epoch was rounded that way.
C8_UniformPriorUpToRounding ==
    (posthoc_adjusting /\ Uniform) =>
        /\ AfterTestBatch =>
              /\ \A r \in DOMAIN logits, c \in Classes :
                    adjusted_logits[r][c] =
                        Fl(logits[r][c] - LogTerm(base_probs[1], FLAGS.tau))
              /\ \A r \in DOMAIN logits :
                    ~RoundedTogether(r) =>
                        ArgMax(adjusted_logits[r]) = ArgMax(logits[r])
        /\ (AtEpochEnd /\ merged = 0) => SameValue(test_adj_acc, test_acc)

\* the end of an epoch under a uniform prior whose test rows were all shifted
\* without loss, some of them predicted right
C8_Witness ==
    /\ posthoc_adjusting /\ Uniform /\ AtEpochEnd
    /\ merged = 0
    /\ test_acc.den > 1 /\ test_acc.num > 0

TrainStream == SelectSeq(summaries, LAMBDA s : s.stream = "train")

\* C9 as stated: in the order in which scalars are written to the train stream,
\* each step index is strictly greater than the one before, whatever the number
\* of batches the train split yields.
C9_TrainStepsStrictlyIncrease ==
    \A i \in 1..(Len(TrainStream) - 1) :
        TrainStream[i].step < TrainStream[i + 1].step

\* C9 amended: in the order in which scalars are written to the train stream, no
\* step index is smaller than the one before (the 'accuracy' of epoch e and the
\* step-0 'batch loss' of epoch e+1 share an index), provided the train split
\* yields at most batches_per_epoch + 1 batches per epoch.
C9_TrainStepsNeverRewind ==
    LET B == IF pc = "start" THEN 0
             ELSE dataset.num_train \div FLAGS.train_batch_size
    IN  dataset.train_batches <= B + 1 =>
            \A i \in 1..(Len(TrainStream) - 1) :
                TrainStream[i].step <= TrainStream[i + 1].step

\* a run whose epochs wrote a 'batch loss' at step LOG_EVERY, one more batch than
\* batches_per_epoch, now done
C9_Witness ==
    /\ pc = "done" /\ epoch >= 2
    /\ batches_per_epoch = LOG_EVERY /\ dataset.train_batches = LOG_EVERY + 1
    /\ \E i \in 1..Len(TrainStream) :
          /\ TrainStream[i].tag = "batch loss"
          /\ TrainStream[i].step = 2 * LOG_EVERY

Order ==
    {<<"start", "load">>, <<"load", "setup">>, <<"load", "failed">>,
     <<"setup", "epoch">>,
     <<"epoch", "train">>, <<"train", "test">>, <<"test", "epoch">>,
     <<"epoch", "done">>}

C10_State ==
    /\ optimizer.iterations =
          IF pc = "train" THEN epoch * dataset.train_batches + train_it
          ELSE IF pc = "test" THEN (epoch + 1) * dataset.train_batches
          ELSE epoch * dataset.train_batches
    /\ pc = "test" => train_it = dataset.train_batches
    /\ (pc = "epoch" /\ epoch > 0) => test_it = dataset.test_batches
    /\ pc \in {"train", "test"} => epoch < dataset.num_epochs
    /\ pc = "done" => epoch = dataset.num_epochs

C10_Step ==
    /\ pc' # pc => <<pc, pc'>> \in Order
    /\ epoch' # epoch => (epoch' = epoch + 1 /\ pc = "test" /\ pc' = "epoch")
    /\ optimizer' # optimizer =>
          /\ pc = "train" /\ pc' = "train"
          /\ train_it' = train_it + 1
          /\ optimizer'.iterations = optimizer.iterations + 1
    /\ train_it' # train_it => (pc = "train" \/ pc = "epoch")
    /\ test_it' # test_it => (pc = "test" \/ pc = "epoch")

\* C10: after a successful setup the run is Setup, then TrainEpoch and TestEpoch
\* num_epochs times, then Done, which it reaches: in an epoch every train batch
\* comes before any test batch, the parameters are updated once per train batch
\* and never in a TestEpoch, and nothing stops the run early.
C10_EpochsInOrderToDone ==
    /\ []C10_State
    /\ [][C10_Step]_vars
    /\ (pc = "epoch") ~> (pc = "done")

\* a run of full length, with several train and test batches per epoch, done
C10_Witness ==
    /\ pc = "done" /\ epoch = MaxEpochs
    /\ dataset.train_batches > 1 /\ dataset.test_batches > 1
    /\ optimizer.iterations = MaxEpochs * dataset.train_batches
====
